---- MODULE Spec2Model ----
(***************************************************************************)
(* Plugin lifecycle manager, capability API and execution sandbox of       *)
(* huawei_pdf_reader/plugin_manager.py, with the plugin table of           *)
(* huawei_pdf_reader/database.py.                                          *)
(*                                                                         *)
(* Conventions.                                                            *)
(*  - A text is a sequence of tokens; concatenation is \o.  The Chinese    *)
(*    message prefixes of the source are written as ASCII tokens.          *)
(*  - A Python Optional is a sequence of length 0 (None) or 1 (a value).   *)
(*  - "Plugin code fails" means it raises an instance of Exception, the    *)
(*    class the sandbox's except clause names.                             *)
(***************************************************************************)
EXTENDS Integers, Sequences, FiniteSets, TLC

VARIABLES
    db,              \* plugins table: sequence of records in rowid order
    plugins_dir,     \* install directory of each id: None or its files
    sandboxes,       \* PluginManager._sandboxes: id -> None or sandbox
    loaded_modules,  \* PluginManager._loaded_modules: set of ids
    sys_modules,     \* sys.modules keys "plugin_<id>": set of ids
    last,            \* the last host call: operation, arguments, outcome
    trip,            \* how far the last calls follow install, enable, disable, uninstall
    sbx,             \* a PluginSandbox used without a manager, and its last call
    vld,             \* the last validate_plugin call: its package and its result
    papi             \* a PluginAPI used without a manager, and its last call

vars == <<db, plugins_dir, sandboxes, loaded_modules, sys_modules, last, trip,
          sbx, vld, papi>>

mgrVars == <<db, plugins_dir, sandboxes, loaded_modules, sys_modules, last, trip>>

\* the objects the tests use without a manager
aloneVars == <<sbx, vld, papi>>

----------------------------------------------------------------------------
(* Bounds and program constants *)

\* plugin identifiers used by the model
Ids == {"p1", "p2"}

\* PluginSandbox.max_errors default
DefaultMaxErrors == 5

\* the host makes a failing execute_plugin_safely call only on a sandbox whose
\* error_count is below this
MaxErrCount == 1

\* a sandbox used on its own takes a failing execute_safely call only while
\* it has counted fewer errors than this
MaxFailedCalls == 7

None == <<>>

Some(x) == <<x>>

IsNone(o) == o = <<>>

Val(o) == o[1]

----------------------------------------------------------------------------
(* Exceptions raised by plugin-authored code *)

\* type(e).__name__ and str(e); str(e) may be empty (raise RuntimeError())
Exceptions ==
    { [kind |-> "RuntimeError", detail |-> <<"boom">>],
      [kind |-> "RuntimeError", detail |-> <<>>] }

\* what a call into plugin code does: returns a value, or raises
Returns(v) == [raises |-> FALSE, exc |-> [kind |-> "", detail |-> <<>>], result |-> v]

Raises(e) == [raises |-> TRUE, exc |-> e, result |-> None]

Outcomes == {Returns(None)} \cup {Raises(e) : e \in Exceptions}

\* str(e)
StrExc(e) == e.detail

\* f"{type(e).__name__}: {str(e)}\n{traceback.format_exc()}"
FormatError(e) == <<e.kind, ": ">> \o StrExc(e) \o <<"\n", "Traceback">>

\* whether text `part` occurs in text `whole`
Contains(whole, part) ==
    \E i \in 0..(Len(whole) - Len(part)) :
        \A j \in 1..Len(part) : whole[i + j] = part[j]

----------------------------------------------------------------------------
(* PluginAPI *)

\* the mutant of PluginAPI.__init__ that grants every allowed permission
PluginAPI_granting_all(plugin_id, permissions) ==
    [plugin_id |-> plugin_id,
     permissions |-> {"events", "document_read", "document_write",
                      "annotation_read", "annotation_write", "settings_read",
                      "settings_write", "network", "storage"},
     callbacks |-> <<>>,
     storage |-> {},
     logs |-> <<>>]

PluginAPI(plugin_id, permissions) ==
    [plugin_id |-> plugin_id,
     permissions |-> {permissions[i] : i \in DOMAIN permissions},
     callbacks |-> <<>>,
     storage |-> {},
     logs |-> <<>>]

check_permission(api, permission) == permission \in api.permissions

\* api.has_permission(permission)
has_permission(api, permission) == check_permission(api, permission)

\* api.log(message): always permitted
api_log(api, message) ==
    [api EXCEPT !.logs = Append(@, [plugin_id |-> api.plugin_id,
                                    level |-> "INFO", message |-> message])]

\* the mutant of register_callback that appends without the permission check
register_callback_unchecked(api, event, callback) ==
    [api |-> [api EXCEPT !.callbacks =
                 IF event \in DOMAIN @
                 THEN [@ EXCEPT ![event] = Append(@, callback)]
                 ELSE (event :> <<callback>>) @@ @],
     ret |-> TRUE]

\* api.register_callback(event, callback)
register_callback(api, event, callback) ==
    IF ~check_permission(api, "events")
    THEN [api |-> api, ret |-> FALSE]
    ELSE [api |-> [api EXCEPT !.callbacks =
                      IF event \in DOMAIN @
                      THEN [@ EXCEPT ![event] = Append(@, callback)]
                      ELSE (event :> <<callback>>) @@ @],
          ret |-> TRUE]

\* list.remove(x): drop the first occurrence of x
RemoveFirst(s, x) ==
    LET i == CHOOSE k \in DOMAIN s : s[k] = x /\ \A j \in 1..(k - 1) : s[j] # x
    IN  [k \in 1..(Len(s) - 1) |-> IF k < i THEN s[k] ELSE s[k + 1]]

\* api.unregister_callback(event, callback): no permission is asked for
unregister_callback(api, event, callback) ==
    IF event \in DOMAIN api.callbacks
       /\ \E k \in DOMAIN api.callbacks[event] : api.callbacks[event][k] = callback
    THEN [api |-> [api EXCEPT !.callbacks[event] = RemoveFirst(@, callback)],
          ret |-> TRUE]
    ELSE [api |-> api, ret |-> FALSE]

\* api.get_callbacks(event)
get_callbacks(api, event) ==
    IF event \in DOMAIN api.callbacks THEN api.callbacks[event] ELSE <<>>

clear_callbacks(api) == [api EXCEPT !.callbacks = <<>>]

clear_logs(api) == [api EXCEPT !.logs = <<>>]

\* api.store_data(key, value)
store_data(api, key, value) ==
    IF ~check_permission(api, "storage")
    THEN [api |-> api, ret |-> FALSE]
    ELSE [api |-> [api EXCEPT !.storage =
                      {kv \in @ : kv[1] # key} \cup {<<key, value>>}],
          ret |-> TRUE]

\* whether key is in the _storage dict, and its value
HasData(api, key) == \E kv \in api.storage : kv[1] = key

DataOf(api, key) == (CHOOSE kv \in api.storage : kv[1] = key)[2]

\* the mutant of get_data that returns the default for every key
get_data_default(api, key, default) == default

\* api.get_data(key, default)
get_data(api, key, default) ==
    IF ~check_permission(api, "storage")
    THEN default
    ELSE IF HasData(api, key) THEN DataOf(api, key) ELSE default

\* api.delete_data(key)
delete_data(api, key) ==
    IF ~check_permission(api, "storage")
    THEN [api |-> api, ret |-> FALSE]
    ELSE IF HasData(api, key)
    THEN [api |-> [api EXCEPT !.storage = {kv \in @ : kv[1] # key}], ret |-> TRUE]
    ELSE [api |-> api, ret |-> FALSE]

\* api.get_all_data()
get_all_data(api) ==
    IF ~check_permission(api, "storage") THEN {} ELSE api.storage

\* api.cleanup()
cleanup(api) == [clear_logs(clear_callbacks(api)) EXCEPT !.storage = {}]

----------------------------------------------------------------------------
(* PluginSandbox *)

PluginSandbox(plugin_id) ==
    [plugin_id |-> plugin_id,
     plugin_instance |-> None,
     api |-> None,
     is_loaded |-> FALSE,
     last_error |-> None,
     error_count |-> 0,
     max_errors |-> DefaultMaxErrors]

\* the mutant of execute_safely that records the error without counting it
execute_safely_nocount(sandbox, call) ==
    IF ~call.raises
    THEN [sandbox |-> sandbox,
          ret |-> [success |-> TRUE, result |-> call.result, error |-> None]]
    ELSE LET sb == [sandbox EXCEPT !.last_error = Some(FormatError(call.exc))]
         IN [sandbox |-> sb,
             ret |-> [success |-> FALSE, result |-> None, error |-> sb.last_error]]

\* the mutant of execute_safely that forgets the last error on success
execute_safely_clearing(sandbox, call) ==
    IF ~call.raises
    THEN [sandbox |-> [sandbox EXCEPT !.last_error = None],
          ret |-> [success |-> TRUE, result |-> call.result, error |-> None]]
    ELSE LET sb == [sandbox EXCEPT !.error_count = @ + 1,
                                   !.last_error = Some(FormatError(call.exc))]
         IN [sandbox |-> sb,
             ret |-> [success |-> FALSE, result |-> None, error |-> sb.last_error]]

\* execute_safely(func): `call` is what func does when invoked
execute_safely(sandbox, call) ==
    IF ~call.raises
    THEN [sandbox |-> sandbox,
          ret |-> [success |-> TRUE, result |-> call.result, error |-> None]]
    ELSE LET sb == [sandbox EXCEPT !.error_count = @ + 1,
                                   !.last_error = Some(FormatError(call.exc))]
         IN [sandbox |-> sb,
             ret |-> [success |-> FALSE, result |-> None, error |-> sb.last_error]]

\* the mutant of should_disable with a strict comparison
should_disable_strict(sandbox) == sandbox.error_count > sandbox.max_errors

should_disable(sandbox) == sandbox.error_count >= sandbox.max_errors

reset_error_count(sandbox) ==
    [sandbox EXCEPT !.error_count = 0, !.last_error = None]

----------------------------------------------------------------------------
(* Database: the plugins table *)

\* the row with this id, if any (id is the primary key)
db_get_plugin(d, plugin_id) ==
    IF \E i \in DOMAIN d : d[i].id = plugin_id
    THEN Some(d[CHOOSE i \in DOMAIN d : d[i].id = plugin_id])
    ELSE None

db_get_all_plugins(d) == d

db_get_enabled_plugins(d) == SelectSeq(d, LAMBDA r : r.enabled)

db_add_plugin(d, plugin) == Append(d, plugin)

db_update_plugin_status(d, plugin_id, enabled) ==
    [i \in DOMAIN d |->
        IF d[i].id = plugin_id THEN [d[i] EXCEPT !.enabled = enabled] ELSE d[i]]

db_delete_plugin(d, plugin_id) == SelectSeq(d, LAMBDA r : r.id # plugin_id)

----------------------------------------------------------------------------
(* Plugin packages and manifest validation *)

MANIFEST_FILE == "plugin.json"

REQUIRED_MANIFEST_FIELDS == <<"id", "name", "version", "entry_point">>

ALLOWED_PERMISSIONS ==
    <<"events", "document_read", "document_write", "annotation_read",
      "annotation_write", "settings_read", "settings_write", "network",
      "storage">>

InSeq(x, s) == \E i \in DOMAIN s : s[i] = x

\* Python truthiness of a manifest value: the empty string (for entry_point,
\* a <<stem, suffix>> pair, the empty pair) is falsy
Falsy(field, v) == IF field = "entry_point" THEN v = <<>> ELSE v = ""

\* the first index of s whose element satisfies Bad, or 0
FirstBad(s, Bad(_)) ==
    IF \E i \in DOMAIN s : Bad(s[i])
    THEN CHOOSE i \in DOMAIN s : Bad(s[i]) /\ \A j \in 1..(i - 1) : ~Bad(s[j])
    ELSE 0

\* manifest.get("permissions", [])
ManifestPermissions(manifest) ==
    IF "permissions" \in DOMAIN manifest
    THEN manifest.permissions
    ELSE [is_list |-> TRUE, items |-> <<>>]

\* the last index of s whose element satisfies Bad, or 0
LastBad(s, Bad(_)) ==
    IF \E i \in DOMAIN s : Bad(s[i])
    THEN CHOOSE i \in DOMAIN s : Bad(s[i]) /\ \A j \in (i + 1)..Len(s) : ~Bad(s[j])
    ELSE 0

\* the mutant of _validate_manifest that reports the last missing or empty
\* field instead of the first
validate_manifest_last_field(pkg) ==
    LET manifest == pkg.manifest
        missing(f) == f \notin DOMAIN manifest \/ Falsy(f, manifest[f])
        k == LastBad(REQUIRED_MANIFEST_FIELDS, missing)
        permissions == ManifestPermissions(manifest)
        unknown(p) == ~InSeq(p, ALLOWED_PERMISSIONS)
        u == FirstBad(permissions.items, unknown)
    IN  IF ~pkg.json_ok
        THEN [valid |-> FALSE, error |-> <<"manifest_json_error: ", "JSONDecodeError">>]
        ELSE IF k # 0
        THEN IF REQUIRED_MANIFEST_FIELDS[k] \notin DOMAIN manifest
             THEN [valid |-> FALSE,
                   error |-> <<"manifest_missing_field: ", REQUIRED_MANIFEST_FIELDS[k]>>]
             ELSE [valid |-> FALSE,
                   error |-> <<"manifest_field_empty: ", REQUIRED_MANIFEST_FIELDS[k]>>]
        ELSE IF ~permissions.is_list
        THEN [valid |-> FALSE, error |-> <<"permissions_must_be_array">>]
        ELSE IF u # 0
        THEN [valid |-> FALSE, error |-> <<"unknown_permission: ", permissions.items[u]>>]
        ELSE IF manifest.entry_point[2] # ".py"
        THEN [valid |-> FALSE, error |-> <<"entry_point_must_be_py">>]
        ELSE [valid |-> TRUE, error |-> <<>>]

\* the mutant of _validate_manifest that does not look at the permission names
validate_manifest_any_permission(pkg) ==
    LET manifest == pkg.manifest
        missing(f) == f \notin DOMAIN manifest \/ Falsy(f, manifest[f])
        k == FirstBad(REQUIRED_MANIFEST_FIELDS, missing)
        permissions == ManifestPermissions(manifest)
    IN  IF ~pkg.json_ok
        THEN [valid |-> FALSE, error |-> <<"manifest_json_error: ", "JSONDecodeError">>]
        ELSE IF k # 0
        THEN IF REQUIRED_MANIFEST_FIELDS[k] \notin DOMAIN manifest
             THEN [valid |-> FALSE,
                   error |-> <<"manifest_missing_field: ", REQUIRED_MANIFEST_FIELDS[k]>>]
             ELSE [valid |-> FALSE,
                   error |-> <<"manifest_field_empty: ", REQUIRED_MANIFEST_FIELDS[k]>>]
        ELSE IF ~permissions.is_list
        THEN [valid |-> FALSE, error |-> <<"permissions_must_be_array">>]
        ELSE IF manifest.entry_point[2] # ".py"
        THEN [valid |-> FALSE, error |-> <<"entry_point_must_be_py">>]
        ELSE [valid |-> TRUE, error |-> <<>>]

\* the mutant of _validate_manifest that checks the entry point before the
\* permissions
validate_manifest_entry_first(pkg) ==
    LET manifest == pkg.manifest
        missing(f) == f \notin DOMAIN manifest \/ Falsy(f, manifest[f])
        k == FirstBad(REQUIRED_MANIFEST_FIELDS, missing)
        permissions == ManifestPermissions(manifest)
        unknown(p) == ~InSeq(p, ALLOWED_PERMISSIONS)
        u == FirstBad(permissions.items, unknown)
    IN  IF ~pkg.json_ok
        THEN [valid |-> FALSE, error |-> <<"manifest_json_error: ", "JSONDecodeError">>]
        ELSE IF k # 0
        THEN IF REQUIRED_MANIFEST_FIELDS[k] \notin DOMAIN manifest
             THEN [valid |-> FALSE,
                   error |-> <<"manifest_missing_field: ", REQUIRED_MANIFEST_FIELDS[k]>>]
             ELSE [valid |-> FALSE,
                   error |-> <<"manifest_field_empty: ", REQUIRED_MANIFEST_FIELDS[k]>>]
        ELSE IF manifest.entry_point[2] # ".py"
        THEN [valid |-> FALSE, error |-> <<"entry_point_must_be_py">>]
        ELSE IF ~permissions.is_list
        THEN [valid |-> FALSE, error |-> <<"permissions_must_be_array">>]
        ELSE IF u # 0
        THEN [valid |-> FALSE, error |-> <<"unknown_permission: ", permissions.items[u]>>]
        ELSE [valid |-> TRUE, error |-> <<>>]

\* _validate_manifest: pkg.json_ok is whether json.loads succeeds
validate_manifest(pkg) ==
    LET manifest == pkg.manifest
        missing(f) == f \notin DOMAIN manifest \/ Falsy(f, manifest[f])
        k == FirstBad(REQUIRED_MANIFEST_FIELDS, missing)
        permissions == ManifestPermissions(manifest)
        unknown(p) == ~InSeq(p, ALLOWED_PERMISSIONS)
        u == FirstBad(permissions.items, unknown)
    IN  IF ~pkg.json_ok
        THEN [valid |-> FALSE, error |-> <<"manifest_json_error: ", "JSONDecodeError">>]
        ELSE IF k # 0
        THEN IF REQUIRED_MANIFEST_FIELDS[k] \notin DOMAIN manifest
             THEN [valid |-> FALSE,
                   error |-> <<"manifest_missing_field: ", REQUIRED_MANIFEST_FIELDS[k]>>]
             ELSE [valid |-> FALSE,
                   error |-> <<"manifest_field_empty: ", REQUIRED_MANIFEST_FIELDS[k]>>]
        ELSE IF ~permissions.is_list
        THEN [valid |-> FALSE, error |-> <<"permissions_must_be_array">>]
        ELSE IF u # 0
        THEN [valid |-> FALSE, error |-> <<"unknown_permission: ", permissions.items[u]>>]
        ELSE IF manifest.entry_point[2] # ".py"
        THEN [valid |-> FALSE, error |-> <<"entry_point_must_be_py">>]
        ELSE [valid |-> TRUE, error |-> <<>>]

\* validate_plugin: path existence, package shape, manifest location
\*   shape "zip": manifest found anywhere in the archive
\*   shape "dir": manifest required at the top level
validate_plugin(pkg) ==
    IF ~pkg.exists
    THEN [valid |-> FALSE, error |-> <<"plugin_path_missing: ", "path">>]
    ELSE IF pkg.shape = "zip"
    THEN IF pkg.manifest_at = "none"
         THEN [valid |-> FALSE, error |-> <<"plugin_lacks_manifest: ", MANIFEST_FILE>>]
         ELSE validate_manifest(pkg)
    ELSE IF pkg.shape = "dir"
    THEN IF pkg.manifest_at # "top"
         THEN [valid |-> FALSE, error |-> <<"plugin_lacks_manifest: ", MANIFEST_FILE>>]
         ELSE validate_manifest(pkg)
    ELSE [valid |-> FALSE, error |-> <<"unsupported_plugin_format">>]

\* a package whose manifest is well formed
Manifest(id, perms) ==
    [id |-> id, name |-> "Demo", version |-> "1.0.0",
     entry_point |-> <<"main", ".py">>,
     permissions |-> [is_list |-> TRUE, items |-> perms]]

\* module: what the entry-point code unit defines
\*   "good"        one IPlugin subclass whose constructor returns
\*   "body_raises" the module body raises when executed
\*   "noclass"     no IPlugin subclass
\*   "ctor_raises" the IPlugin subclass's constructor raises
Package(id, perms, entry, module) ==
    [exists |-> TRUE, shape |-> "dir", manifest_at |-> "top", json_ok |-> TRUE,
     manifest |-> Manifest(id, perms),
     files |-> [entry |-> entry, module |-> module]]

ModuleKinds == {"good", "body_raises", "noclass", "ctor_raises"}

\* the packages offered to install_plugin: a conforming one for every id, and
\* for p1 also each defective code unit, a missing entry-point file and a
\* manifest that asks for a permission outside the allow-list
Packages ==
    { Package(id, <<"storage">>, TRUE, "good") : id \in Ids }
    \cup { Package("p1", <<>>, TRUE, k) : k \in ModuleKinds \ {"good"} }
    \cup { Package("p1", <<>>, FALSE, "good"),
           Package("p1", <<"camera">>, TRUE, "good") }

\* manifest["id"] of a package, "" when the manifest has none
PackageId(pkg) ==
    IF "id" \in DOMAIN pkg.manifest THEN pkg.manifest.id ELSE ""

\* the permission lists a manifest under validation may carry: the key absent,
\* a value that is not a list, and lists with none, one or two unknown names
PermissionChoices ==
    { [given |-> FALSE, is_list |-> TRUE, items |-> <<>>],
      [given |-> TRUE, is_list |-> FALSE, items |-> <<>>] }
    \cup { [given |-> TRUE, is_list |-> TRUE, items |-> items] :
               items \in { <<>>, <<"storage">>, <<"events", "storage">>, <<"camera">>,
                           <<"storage", "camera", "bogus">>,
                           <<"bogus", "storage", "camera">> } }

\* each required key is present with a value, present and empty, or missing
FieldStates == {"present", "empty", "missing"}

\* the manifest whose required keys are in the states st
ManifestWith(st, perms, suffix) ==
    LET keys == {f \in {"id", "name", "version", "entry_point"} : st[f] # "missing"}
                \cup (IF perms.given THEN {"permissions"} ELSE {})
    IN  [f \in keys |->
            CASE f = "id" -> IF st[f] = "empty" THEN "" ELSE "p1"
              [] f = "name" -> IF st[f] = "empty" THEN "" ELSE "Demo"
              [] f = "version" -> IF st[f] = "empty" THEN "" ELSE "1.0.0"
              [] f = "entry_point" -> IF st[f] = "empty" THEN <<>> ELSE <<"main", suffix>>
              [] f = "permissions" -> [is_list |-> perms.is_list, items |-> perms.items]]

Manifests ==
    { ManifestWith(st, perms, suffix) :
        st \in [{"id", "name", "version", "entry_point"} -> FieldStates],
        perms \in PermissionChoices, suffix \in {".py", ".txt"} }

\* the packages offered to validate_plugin: a directory with each manifest,
\* and for two of the manifests every other location, shape and encoding
ValidationPackages ==
    { [exists |-> TRUE, shape |-> "dir", manifest_at |-> "top", json_ok |-> TRUE,
       manifest |-> mf, files |-> [entry |-> TRUE, module |-> "good"]] :
           mf \in Manifests }
    \cup { [exists |-> ex, shape |-> sh, manifest_at |-> at, json_ok |-> js,
            manifest |-> mf, files |-> [entry |-> TRUE, module |-> "good"]] :
              ex \in BOOLEAN, sh \in {"dir", "zip", "file"},
              at \in {"top", "nested", "none"}, js \in BOOLEAN,
              mf \in { Manifest("p1", <<"storage">>),
                       [name |-> "Demo", version |-> "1.0.0",
                        entry_point |-> <<"main", ".py">>] } }

----------------------------------------------------------------------------
(* PluginManager: each operation maps a manager state m (the fields db,     *)
(* plugins_dir, sandboxes, loaded_modules, sys_modules and the events of    *)
(* the running host call) to the state it leaves and what it returns or     *)
(* raises.  `beh` is what the plugin-authored code does during the call:    *)
(* beh.exc the exception a failing code unit raises, beh.on_load_raises,    *)
(* beh.on_unload_raises, beh.uses_api.  m.released lists the PluginAPI      *)
(* objects the running call has dropped from a sandbox, as it left them.    *)

Event(m, e) == [m EXCEPT !.events = Append(@, e)]

\* what a host call returns: the state, the exception type and message
Ok(m) == [m |-> m, raised |-> "", msg |-> <<>>, ret |-> None]

OkRet(m, ret) == [m |-> m, raised |-> "", msg |-> <<>>, ret |-> ret]

Raise(m, type, msg) == [m |-> m, raised |-> type, msg |-> msg, ret |-> None]

\* the live object created by plugin_class()
Instance(plugin_id, module) == [plugin_id |-> plugin_id, module |-> module]

\* what on_load(api) does to the API handle it is given: the test plugins log
\* a line; a plugin may also store a value
OnLoadApi(api, beh) ==
    IF beh.uses_api
    THEN store_data(api_log(api, "Plugin loaded"), "k", "v").api
    ELSE api

\* the except clause of _load_plugin: record str(e), keep the sandbox, re-raise
LoadFailed(m, sandbox, text) ==
    Raise([m EXCEPT !.sandboxes[sandbox.plugin_id] =
                        Some([sandbox EXCEPT !.last_error = Some(text)])],
          "ValueError", <<"load_plugin_failed: ">> \o text)

\* the mutant of _load_plugin that goes on with the sandbox the id already has
load_plugin_reusing(m, plugin, beh) ==
    LET id == plugin.id
        dir == m.plugins_dir[id]
        sandbox == IF IsNone(m.sandboxes[id]) THEN PluginSandbox(id)
                   ELSE [Val(m.sandboxes[id]) EXCEPT !.plugin_instance = None,
                                                     !.api = None,
                                                     !.is_loaded = FALSE]
        m1 == Event([m EXCEPT !.sys_modules = @ \cup {id}],
                    <<"load_plugin", id, "import">>)
    IN  IF IsNone(dir) \/ ~Val(dir).entry
        THEN Raise(Event(m, <<"load_plugin", id, "no_entry_point">>),
                   "ValueError", <<"entry_point_missing: ", id>>)
        ELSE IF Val(dir).module = "body_raises"
        THEN LoadFailed(Event(m1, <<"exec_module", id, "raise">>), sandbox,
                        StrExc(beh.exc))
        ELSE IF Val(dir).module = "noclass"
        THEN LoadFailed(Event(m1, <<"exec_module", id, "ok">>), sandbox,
                        <<"no_IPlugin_class_in_module">>)
        ELSE IF Val(dir).module = "ctor_raises"
        THEN LoadFailed(Event(Event(m1, <<"exec_module", id, "ok">>),
                              <<"init", id, "raise">>),
                        sandbox, StrExc(beh.exc))
        ELSE
        LET plugin_instance == Instance(id, Val(dir).module)
            api == PluginAPI(id, plugin.permissions)
            r == execute_safely(sandbox,
                     IF beh.on_load_raises THEN Raises(beh.exc) ELSE Returns(None))
            m2 == Event(Event(m1, <<"exec_module", id, "ok">>), <<"init", id, "ok">>)
        IN  IF ~r.ret.success
            THEN LoadFailed(Event(m2, <<"on_load", id, "raise">>), r.sandbox,
                            <<"plugin_load_failed: ">> \o Val(r.ret.error))
            ELSE
            LET sb == [r.sandbox EXCEPT !.plugin_instance = Some(plugin_instance),
                                        !.api = Some(OnLoadApi(api, beh)),
                                        !.is_loaded = TRUE]
                m3 == Event(m2, <<"on_load", id, "ok">>)
            IN  Ok([m3 EXCEPT !.sandboxes[id] = Some(sb),
                              !.loaded_modules = @ \cup {id}])

\* _load_plugin(plugin)
load_plugin(m, plugin, beh) ==
    LET id == plugin.id
        dir == m.plugins_dir[id]
        sandbox == PluginSandbox(id)
        m1 == Event([m EXCEPT !.sys_modules = @ \cup {id}],
                    <<"load_plugin", id, "import">>)
    IN  IF IsNone(dir) \/ ~Val(dir).entry
        THEN Raise(Event(m, <<"load_plugin", id, "no_entry_point">>),
                   "ValueError", <<"entry_point_missing: ", id>>)
        ELSE IF Val(dir).module = "body_raises"
        THEN LoadFailed(Event(m1, <<"exec_module", id, "raise">>), sandbox,
                        StrExc(beh.exc))
        ELSE IF Val(dir).module = "noclass"
        THEN LoadFailed(Event(m1, <<"exec_module", id, "ok">>), sandbox,
                        <<"no_IPlugin_class_in_module">>)
        ELSE IF Val(dir).module = "ctor_raises"
        THEN LoadFailed(Event(Event(m1, <<"exec_module", id, "ok">>),
                              <<"init", id, "raise">>),
                        sandbox, StrExc(beh.exc))
        ELSE
        LET plugin_instance == Instance(id, Val(dir).module)
            api == PluginAPI(id, plugin.permissions)
            r == execute_safely(sandbox,
                     IF beh.on_load_raises THEN Raises(beh.exc) ELSE Returns(None))
            m2 == Event(Event(m1, <<"exec_module", id, "ok">>), <<"init", id, "ok">>)
        IN  IF ~r.ret.success
            THEN LoadFailed(Event(m2, <<"on_load", id, "raise">>), r.sandbox,
                            <<"plugin_load_failed: ">> \o Val(r.ret.error))
            ELSE
            LET sb == [r.sandbox EXCEPT !.plugin_instance = Some(plugin_instance),
                                        !.api = Some(OnLoadApi(api, beh)),
                                        !.is_loaded = TRUE]
                m3 == Event(m2, <<"on_load", id, "ok">>)
            IN  Ok([m3 EXCEPT !.sandboxes[id] = Some(sb),
                              !.loaded_modules = @ \cup {id}])

\* the mutant of _unload_plugin that keeps the instance when on_unload fails
unload_plugin_keep_on_failure(m, plugin_id, beh) ==
    LET sandbox == m.sandboxes[plugin_id]
        m1 == IF ~IsNone(sandbox) /\ ~IsNone(Val(sandbox).plugin_instance)
              THEN LET r == execute_safely(Val(sandbox),
                                IF beh.on_unload_raises THEN Raises(beh.exc)
                                                        ELSE Returns(None))
                       sb == IF r.ret.success
                             THEN [r.sandbox EXCEPT !.is_loaded = FALSE,
                                                    !.plugin_instance = None,
                                                    !.api = None]
                             ELSE r.sandbox
                   IN  [Event(m, <<"on_unload", plugin_id,
                                   IF beh.on_unload_raises THEN "raise" ELSE "ok">>)
                           EXCEPT !.sandboxes[plugin_id] = Some(sb)]
              ELSE m
    IN  [m1 EXCEPT !.sys_modules = @ \ {plugin_id},
                   !.loaded_modules = @ \ {plugin_id}]

\* the mutant of _unload_plugin that leaves the API in the sandbox
unload_plugin_keeping_api(m, plugin_id, beh) ==
    LET sandbox == m.sandboxes[plugin_id]
        m1 == IF ~IsNone(sandbox) /\ ~IsNone(Val(sandbox).plugin_instance)
              THEN LET r == execute_safely(Val(sandbox),
                                IF beh.on_unload_raises THEN Raises(beh.exc)
                                                        ELSE Returns(None))
                       sb == [r.sandbox EXCEPT !.is_loaded = FALSE,
                                               !.plugin_instance = None]
                   IN  [Event(m, <<"on_unload", plugin_id,
                                   IF beh.on_unload_raises THEN "raise" ELSE "ok">>)
                           EXCEPT !.sandboxes[plugin_id] = Some(sb)]
              ELSE m
    IN  [m1 EXCEPT !.sys_modules = @ \ {plugin_id},
                   !.loaded_modules = @ \ {plugin_id}]

\* _unload_plugin(plugin_id)
unload_plugin(m, plugin_id, beh) ==
    LET sandbox == m.sandboxes[plugin_id]
        m1 == IF ~IsNone(sandbox) /\ ~IsNone(Val(sandbox).plugin_instance)
              THEN LET r == execute_safely(Val(sandbox),
                                IF beh.on_unload_raises THEN Raises(beh.exc)
                                                        ELSE Returns(None))
                       sb == [r.sandbox EXCEPT !.is_loaded = FALSE,
                                               !.plugin_instance = None,
                                               !.api = None]
                   IN  [Event(m, <<"on_unload", plugin_id,
                                   IF beh.on_unload_raises THEN "raise" ELSE "ok">>)
                           EXCEPT !.sandboxes[plugin_id] = Some(sb),
                                  !.released = @ \o Val(sandbox).api]
              ELSE m
    IN  [m1 EXCEPT !.sys_modules = @ \ {plugin_id},
                   !.loaded_modules = @ \ {plugin_id}]

\* the mutant of enable_plugin that marks the record enabled before loading
enable_plugin_mark_first(m, plugin_id, beh) ==
    LET plugin == db_get_plugin(m.db, plugin_id)
    IN  IF IsNone(plugin)
        THEN Raise(m, "ValueError", <<"plugin_not_found: ", plugin_id>>)
        ELSE IF Val(plugin).enabled
        THEN Ok(m)
        ELSE LET m0 == [m EXCEPT !.db = db_update_plugin_status(@, plugin_id, TRUE)]
                 r == load_plugin(m0, Val(plugin), beh)
             IN  r

\* the mutant of enable_plugin that loads without updating the record
enable_plugin_no_persist(m, plugin_id, beh) ==
    LET plugin == db_get_plugin(m.db, plugin_id)
    IN  IF IsNone(plugin)
        THEN Raise(m, "ValueError", <<"plugin_not_found: ", plugin_id>>)
        ELSE IF Val(plugin).enabled
        THEN Ok(m)
        ELSE load_plugin(m, Val(plugin), beh)

\* the mutant of enable_plugin that loads an already enabled plugin again
enable_plugin_reloading(m, plugin_id, beh) ==
    LET plugin == db_get_plugin(m.db, plugin_id)
    IN  IF IsNone(plugin)
        THEN Raise(m, "ValueError", <<"plugin_not_found: ", plugin_id>>)
        ELSE LET r == load_plugin(m, Val(plugin), beh)
             IN  IF r.raised # ""
                 THEN r
                 ELSE Ok([r.m EXCEPT !.db = db_update_plugin_status(@, plugin_id, TRUE)])

\* enable_plugin(plugin_id)
enable_plugin(m, plugin_id, beh) ==
    LET plugin == db_get_plugin(m.db, plugin_id)
    IN  IF IsNone(plugin)
        THEN Raise(m, "ValueError", <<"plugin_not_found: ", plugin_id>>)
        ELSE IF Val(plugin).enabled
        THEN Ok(m)
        ELSE LET r == load_plugin(m, Val(plugin), beh)
             IN  IF r.raised # ""
                 THEN r
                 ELSE Ok([r.m EXCEPT !.db = db_update_plugin_status(@, plugin_id, TRUE)])

\* the mutant of disable_plugin that unloads without updating the record
disable_plugin_no_persist(m, plugin_id, beh) ==
    LET plugin == db_get_plugin(m.db, plugin_id)
    IN  IF IsNone(plugin)
        THEN Raise(m, "ValueError", <<"plugin_not_found: ", plugin_id>>)
        ELSE IF ~Val(plugin).enabled
        THEN Ok(m)
        ELSE Ok(unload_plugin(m, plugin_id, beh))

\* disable_plugin(plugin_id)
disable_plugin(m, plugin_id, beh) ==
    LET plugin == db_get_plugin(m.db, plugin_id)
    IN  IF IsNone(plugin)
        THEN Raise(m, "ValueError", <<"plugin_not_found: ", plugin_id>>)
        ELSE IF ~Val(plugin).enabled
        THEN Ok(m)
        ELSE LET m1 == unload_plugin(m, plugin_id, beh)
             IN  Ok([m1 EXCEPT !.db = db_update_plugin_status(@, plugin_id, FALSE)])

\* PluginInfo as stored in the plugins table
PluginInfo(manifest) ==
    [id |-> manifest.id,
     entry_point |-> manifest.entry_point,
     permissions |-> ManifestPermissions(manifest).items,
     enabled |-> FALSE]

\* _install_plugin_files(source, dest): remove a stale dest, then copy
install_plugin_files(m, pkg, plugin_id) ==
    Event([m EXCEPT !.plugins_dir[plugin_id] = Some(pkg.files)],
          <<"copy_files", plugin_id, "ok">>)

\* the mutant of install_plugin that copies the files before the duplicate check
install_plugin_copy_first(m, pkg) ==
    LET v == validate_plugin(pkg)
        plugin_id == pkg.manifest.id
        m1 == install_plugin_files(m, pkg, plugin_id)
    IN  IF ~v.valid
        THEN Raise(m, "ValueError", <<"plugin_validation_failed: ">> \o v.error)
        ELSE IF ~IsNone(db_get_plugin(m.db, plugin_id))
        THEN Raise(m1, "FileExistsError", <<"plugin_already_installed: ", plugin_id>>)
        ELSE OkRet([m1 EXCEPT !.db = db_add_plugin(@, PluginInfo(pkg.manifest))],
                   Some(PluginInfo(pkg.manifest)))

\* the mutant of install_plugin that installs without validating
install_plugin_unvalidated(m, pkg) ==
    LET plugin_id == pkg.manifest.id
    IN  IF ~IsNone(db_get_plugin(m.db, plugin_id))
        THEN Raise(m, "FileExistsError", <<"plugin_already_installed: ", plugin_id>>)
        ELSE LET m1 == install_plugin_files(m, pkg, plugin_id)
             IN  OkRet([m1 EXCEPT !.db = db_add_plugin(@, PluginInfo(pkg.manifest))],
                       Some(PluginInfo(pkg.manifest)))

\* install_plugin(plugin_path)
install_plugin(m, pkg) ==
    LET v == validate_plugin(pkg)
        plugin_id == pkg.manifest.id
    IN  IF ~v.valid
        THEN Raise(m, "ValueError", <<"plugin_validation_failed: ">> \o v.error)
        ELSE IF ~IsNone(db_get_plugin(m.db, plugin_id))
        THEN Raise(m, "FileExistsError", <<"plugin_already_installed: ", plugin_id>>)
        ELSE LET m1 == install_plugin_files(m, pkg, plugin_id)
             IN  OkRet([m1 EXCEPT !.db = db_add_plugin(@, PluginInfo(pkg.manifest))],
                       Some(PluginInfo(pkg.manifest)))

\* the tail of uninstall_plugin: remove the files, the record and the sandbox
RemoveInstalled(m, plugin_id) ==
    LET m1 == IF ~IsNone(m.plugins_dir[plugin_id])
              THEN Event([m EXCEPT !.plugins_dir[plugin_id] = None],
                         <<"rmtree", plugin_id, "ok">>)
              ELSE m
        m2 == Event([m1 EXCEPT !.db = db_delete_plugin(@, plugin_id)],
                    <<"delete_plugin", plugin_id, "ok">>)
    IN  [m2 EXCEPT !.sandboxes[plugin_id] = None]

\* the mutant of uninstall_plugin that does not disable an enabled plugin
uninstall_plugin_no_disable(m, plugin_id, beh) ==
    LET plugin == db_get_plugin(m.db, plugin_id)
    IN  IF IsNone(plugin)
        THEN Raise(m, "ValueError", <<"plugin_not_found: ", plugin_id>>)
        ELSE Ok(RemoveInstalled(m, plugin_id))

\* uninstall_plugin(plugin_id)
uninstall_plugin(m, plugin_id, beh) ==
    LET plugin == db_get_plugin(m.db, plugin_id)
    IN  IF IsNone(plugin)
        THEN Raise(m, "ValueError", <<"plugin_not_found: ", plugin_id>>)
        ELSE LET m1 == IF Val(plugin).enabled
                       THEN disable_plugin(m, plugin_id, beh).m
                       ELSE m
             IN  Ok(RemoveInstalled(m1, plugin_id))

\* is_plugin_loaded(plugin_id)
is_plugin_loaded(m, plugin_id) ==
    ~IsNone(m.sandboxes[plugin_id]) /\ Val(m.sandboxes[plugin_id]).is_loaded

\* get_plugin_error(plugin_id)
get_plugin_error(m, plugin_id) ==
    IF ~IsNone(m.sandboxes[plugin_id])
    THEN Val(m.sandboxes[plugin_id]).last_error
    ELSE None

\* the mutant of execute_plugin_safely that unloads and disables the plugin
\* once should_disable() is true
execute_plugin_safely_enforcing(m, plugin_id, method_name, beh) ==
    LET sandbox == m.sandboxes[plugin_id]
    IN  IF IsNone(sandbox) \/ ~Val(sandbox).is_loaded
           \/ IsNone(Val(sandbox).plugin_instance)
        THEN OkRet(m, [success |-> FALSE, result |-> None,
                       error |-> Some(<<"plugin_not_loaded">>)])
        ELSE IF method_name \notin {"info", "run"}
        THEN OkRet(m, [success |-> FALSE, result |-> None,
                       error |-> Some(<<"no_such_method: ", method_name>>)])
        ELSE IF method_name = "info" /\ beh.info_raises
        THEN Raise(Event(m, <<"info", plugin_id, "raise">>), beh.exc.kind, StrExc(beh.exc))
        ELSE
        LET call == IF method_name = "info"
                    THEN Raises([kind |-> "TypeError",
                                 detail |-> <<"'PluginInfo' object is not callable">>])
                    ELSE IF beh.method_raises THEN Raises(beh.exc)
                    ELSE Returns(Some(<<"result">>))
            r == execute_safely(Val(sandbox), call)
            m1 == Event(m, <<method_name, plugin_id,
                             IF r.ret.success THEN "ok" ELSE "raise">>)
            m2 == [m1 EXCEPT !.sandboxes[plugin_id] = Some(r.sandbox)]
        IN  IF should_disable(r.sandbox)
            THEN OkRet([unload_plugin(m2, plugin_id, beh) EXCEPT
                           !.db = db_update_plugin_status(@, plugin_id, FALSE)],
                       r.ret)
            ELSE OkRet(m2, r.ret)

\* getattr(instance, method_name, None): "info" is the IPlugin property (its
\* value is a PluginInfo, not a callable), "run" a method the plugin defines
\* execute_plugin_safely(plugin_id, method_name)
execute_plugin_safely(m, plugin_id, method_name, beh) ==
    LET sandbox == m.sandboxes[plugin_id]
    IN  IF IsNone(sandbox) \/ ~Val(sandbox).is_loaded
           \/ IsNone(Val(sandbox).plugin_instance)
        THEN OkRet(m, [success |-> FALSE, result |-> None,
                       error |-> Some(<<"plugin_not_loaded">>)])
        ELSE IF method_name \notin {"info", "run"}
        THEN OkRet(m, [success |-> FALSE, result |-> None,
                       error |-> Some(<<"no_such_method: ", method_name>>)])
        ELSE IF method_name = "info" /\ beh.info_raises
        THEN Raise(Event(m, <<"info", plugin_id, "raise">>), beh.exc.kind, StrExc(beh.exc))
        ELSE
        LET call == IF method_name = "info"
                    THEN Raises([kind |-> "TypeError",
                                 detail |-> <<"'PluginInfo' object is not callable">>])
                    ELSE IF beh.method_raises THEN Raises(beh.exc)
                    ELSE Returns(Some(<<"result">>))
            r == execute_safely(Val(sandbox), call)
            m1 == Event(m, <<method_name, plugin_id,
                             IF r.ret.success THEN "ok" ELSE "raise">>)
        IN  OkRet([m1 EXCEPT !.sandboxes[plugin_id] = Some(r.sandbox)], r.ret)

\* the loop of load_enabled_plugins over the rows read at its start
RECURSIVE load_each(_, _, _, _)
load_each(m, plugins, behs, results) ==
    IF plugins = <<>>
    THEN OkRet(m, results)
    ELSE LET plugin == Head(plugins)
             r == load_plugin(m, plugin, behs[plugin.id])
         IN  IF r.raised = ""
             THEN load_each(r.m, Tail(plugins), behs, (plugin.id :> None) @@ results)
             ELSE load_each([r.m EXCEPT !.db =
                                db_update_plugin_status(@, plugin.id, FALSE)],
                            Tail(plugins), behs,
                            (plugin.id :> Some(r.msg)) @@ results)

\* the mutant of the loop that stops at the first plugin that fails to load
RECURSIVE load_each_abort(_, _, _, _)
load_each_abort(m, plugins, behs, results) ==
    IF plugins = <<>>
    THEN OkRet(m, results)
    ELSE LET plugin == Head(plugins)
             r == load_plugin(m, plugin, behs[plugin.id])
         IN  IF r.raised = ""
             THEN load_each_abort(r.m, Tail(plugins), behs,
                                  (plugin.id :> None) @@ results)
             ELSE OkRet([r.m EXCEPT !.db =
                            db_update_plugin_status(@, plugin.id, FALSE)],
                        (plugin.id :> Some(r.msg)) @@ results)

\* the mutant of the loop that leaves a plugin that failed to load enabled
RECURSIVE load_each_keep(_, _, _, _)
load_each_keep(m, plugins, behs, results) ==
    IF plugins = <<>>
    THEN OkRet(m, results)
    ELSE LET plugin == Head(plugins)
             r == load_plugin(m, plugin, behs[plugin.id])
         IN  load_each_keep(r.m, Tail(plugins), behs,
                            (plugin.id :> (IF r.raised = "" THEN None ELSE Some(r.msg)))
                                @@ results)

\* the mutant of load_enabled_plugins that does not disable what failed
load_enabled_plugins_keep(m, behs) ==
    load_each_keep(m, db_get_enabled_plugins(m.db), behs, <<>>)

\* the mutant of load_enabled_plugins that gives up after the first failure
load_enabled_plugins_abort(m, behs) ==
    load_each_abort(m, db_get_enabled_plugins(m.db), behs, <<>>)

\* load_enabled_plugins(): the result maps each id to None or the error text
load_enabled_plugins(m, behs) ==
    load_each(m, db_get_enabled_plugins(m.db), behs, <<>>)

\* the loop of unload_all_plugins over list(self._sandboxes.keys())
RECURSIVE unload_each(_, _, _)
unload_each(m, ids, behs) ==
    IF ids = <<>>
    THEN m
    ELSE unload_each(unload_plugin(m, Head(ids), behs[Head(ids)]), Tail(ids), behs)

\* the mutant of the loop that stops at the first on_unload that fails
RECURSIVE unload_each_abort(_, _, _)
unload_each_abort(m, ids, behs) ==
    IF ids = <<>>
    THEN m
    ELSE IF is_plugin_loaded(m, Head(ids)) /\ behs[Head(ids)].on_unload_raises
    THEN unload_plugin(m, Head(ids), behs[Head(ids)])
    ELSE unload_each_abort(unload_plugin(m, Head(ids), behs[Head(ids)]),
                           Tail(ids), behs)

\* the mutant of unload_all_plugins that gives up after a failing on_unload
unload_all_plugins_abort(m, order, behs) ==
    LET m1 == unload_each_abort(m, order, behs)
    IN  Ok([m1 EXCEPT !.sandboxes = [id \in Ids |-> None],
                      !.loaded_modules = {}])

\* the mutant of unload_all_plugins that also records every plugin disabled
unload_all_plugins_disabling(m, order, behs) ==
    LET m1 == unload_each(m, order, behs)
    IN  Ok([m1 EXCEPT !.sandboxes = [id \in Ids |-> None],
                      !.loaded_modules = {},
                      !.db = [i \in DOMAIN @ |-> [@[i] EXCEPT !.enabled = FALSE]]])

\* unload_all_plugins(): `order` is the key order of the _sandboxes dict
unload_all_plugins(m, order, behs) ==
    LET m1 == unload_each(m, order, behs)
    IN  Ok([m1 EXCEPT !.sandboxes = [id \in Ids |-> None],
                      !.loaded_modules = {}])

----------------------------------------------------------------------------
(* The host: one call of a PluginManager operation per step *)

\* what plugin-authored code may do during one host call
Beh(exc, on_load_raises, on_unload_raises, method_raises, info_raises) ==
    [exc |-> exc, on_load_raises |-> on_load_raises,
     on_unload_raises |-> on_unload_raises, method_raises |-> method_raises,
     info_raises |-> info_raises, uses_api |-> TRUE]

\* a load: the exception a failing code unit raises, and whether on_load fails
LoadBehs == {Beh(e, b, FALSE, FALSE, FALSE) : e \in Exceptions, b \in BOOLEAN}

NoFailure == Beh(CHOOSE e \in Exceptions : e.detail # <<>>, FALSE, FALSE, FALSE, FALSE)

\* an unload: on_unload returns, or raises one of the exceptions
UnloadBehs == {NoFailure} \cup {Beh(e, FALSE, TRUE, FALSE, FALSE) : e \in Exceptions}

\* execute_plugin_safely(id, method_name): the member and what it does
Calls ==
    {<<"nope", NoFailure>>, <<"info", NoFailure>>, <<"run", NoFailure>>}
    \cup {<<"info", Beh(e, FALSE, FALSE, FALSE, TRUE)>> : e \in {NoFailure.exc}}
    \cup {<<"run", Beh(e, FALSE, FALSE, TRUE, FALSE)>> : e \in Exceptions}

\* the manager state the variables hold, with no event of a call yet
Cur ==
    [db |-> db, plugins_dir |-> plugins_dir, sandboxes |-> sandboxes,
     loaded_modules |-> loaded_modules, sys_modules |-> sys_modules,
     events |-> <<>>, released |-> <<>>]

\* the ids of the rows with enabled = 1, and of the loaded plugins, in m
EnabledIds(m) == {m.db[i].id : i \in {j \in DOMAIN m.db : m.db[j].enabled}}

InstalledIds(m) == {m.db[i].id : i \in DOMAIN m.db}

LoadedIds(m) == {id \in Ids : is_plugin_loaded(m, id)}

\* error_count of each id's sandbox in m, 0 where there is none
ErrorCounts(m) ==
    [id \in Ids |-> IF IsNone(m.sandboxes[id]) THEN 0
                    ELSE Val(m.sandboxes[id]).error_count]

\* a host call `op(arg)` ended as r
Commit(r, op, arg) ==
    /\ db' = r.m.db
    /\ plugins_dir' = r.m.plugins_dir
    /\ sandboxes' = r.m.sandboxes
    /\ loaded_modules' = r.m.loaded_modules
    /\ sys_modules' = r.m.sys_modules
    /\ last' = [op |-> op, arg |-> arg, raised |-> r.raised, msg |-> r.msg,
                ret |-> r.ret, events |-> r.m.events, released |-> r.m.released,
                was_enabled |-> EnabledIds(Cur), was_loaded |-> LoadedIds(Cur),
                was_errors |-> ErrorCounts(Cur)]

\* trip.phase is "installed", "enabled", "disabled" or "done" when the last
\* one, two, three or four host calls were, in this order and all returning
\* normally, install_plugin, enable_plugin, disable_plugin and uninstall_plugin
\* of plugin trip.id.  After "enabled" the calls may instead be those of a
\* restart of the host: unload_all_plugins ("shutdown", optional), a new
\* manager over the same store ("restarted"), load_enabled_plugins
\* ("autoloaded").  Any other call makes it "off".
OffTrip == [id |-> "", phase |-> "off"]

\* the restart route: from one of the phases `from` to phase `to`
Restart(from, to) ==
    trip' = IF trip.phase \in from THEN [id |-> trip.id, phase |-> to] ELSE OffTrip

Advance(id, from, to, ok) ==
    trip' = IF ok /\ trip = [id |-> id, phase |-> from]
            THEN [id |-> id, phase |-> to]
            ELSE OffTrip

\* no validate_plugin call yet
IdleValidation ==
    [op |-> "init", pkg |-> Package("p1", <<>>, TRUE, "good"),
     ret |-> [valid |-> TRUE, error |-> <<>>]]

\* the data a plugin stores, and the default it passes to get_data
DataKeys == {"k1", "k2"}

DataValues == {"v1", "v2"}

\* a PluginAPI with these permissions, no call made on it yet; stored[k] is
\* the value of the last store_data(k, v) that returned true and that no
\* delete_data(k) and no cleanup() followed
IdleApi(permissions) ==
    [api |-> PluginAPI("test_plugin", permissions),
     prev |-> PluginAPI("test_plugin", permissions),
     op |-> "init", arg |-> "", given |-> "", ret |-> None,
     stored |-> [k \in DataKeys |-> None],
     stored_before |-> [k \in DataKeys |-> None]]

Init ==
    /\ vld = IdleValidation
    /\ papi = IdleApi(<<>>)
    /\ db = <<>>
    /\ plugins_dir = [id \in Ids |-> None]
    /\ sandboxes = [id \in Ids |-> None]
    /\ loaded_modules = {}
    /\ sys_modules = {}
    /\ last = [op |-> "init", arg |-> "", raised |-> "", msg |-> <<>>,
               ret |-> None, events |-> <<>>, released |-> <<>>,
               was_enabled |-> {}, was_loaded |-> {},
               was_errors |-> [id \in Ids |-> 0]]
    /\ trip = OffTrip
    /\ sbx = [sandbox |-> PluginSandbox("test_plugin"),
              prev |-> PluginSandbox("test_plugin"), op |-> "init",
              call |-> Returns(None), ret |-> None, failed |-> 0]

InstallPlugin(pkg) ==
    LET r == install_plugin(Cur, pkg)
    IN  /\ Commit(r, "install_plugin", PackageId(pkg))
        /\ trip' = IF r.raised = ""
                   THEN [id |-> pkg.manifest.id, phase |-> "installed"]
                   ELSE OffTrip
        /\ UNCHANGED aloneVars

UninstallPlugin(id, beh) ==
    LET r == uninstall_plugin(Cur, id, beh)
    IN  /\ Commit(r, "uninstall_plugin", id)
        /\ Advance(id, "disabled", "done", r.raised = "")
        /\ UNCHANGED aloneVars

EnablePlugin(id, beh) ==
    LET r == enable_plugin(Cur, id, beh)
    IN  /\ Commit(r, "enable_plugin", id)
        /\ Advance(id, "installed", "enabled", r.raised = "")
        /\ UNCHANGED aloneVars

DisablePlugin(id, beh) ==
    LET r == disable_plugin(Cur, id, beh)
    IN  /\ Commit(r, "disable_plugin", id)
        /\ Advance(id, "enabled", "disabled", r.raised = "")
        /\ UNCHANGED aloneVars

LoadEnabledPlugins(behs) ==
    LET r == load_enabled_plugins(Cur, behs)
    IN  /\ Commit(r, "load_enabled_plugins", "")
        /\ Restart({"restarted"}, "autoloaded")
        /\ UNCHANGED aloneVars

UnloadAllPlugins(order, behs) ==
    LET r == unload_all_plugins(Cur, order, behs)
    IN  /\ Commit(r, "unload_all_plugins", "")
        /\ Restart({"enabled"}, "shutdown")
        /\ UNCHANGED aloneVars

\* a call that fails is made only below the error bound `cap`
ExecutePluginSafely(id, method_name, beh, cap) ==
    LET r == execute_plugin_safely(Cur, id, method_name, beh)
    IN  /\ IF IsNone(sandboxes[id]) \/ r.m.sandboxes = sandboxes
           THEN TRUE
           ELSE Val(sandboxes[id]).error_count < cap
        /\ Commit(r, "execute_plugin_safely", id)
        /\ trip' = OffTrip
        /\ UNCHANGED aloneVars

\* PluginManager(db, plugins_dir) over the same store: in the same process
\* (sys.modules kept) or in a new one
NewManager(same_process) ==
    /\ Commit(Ok([Cur EXCEPT !.sandboxes = [id \in Ids |-> None],
                             !.loaded_modules = {},
                             !.sys_modules = IF same_process THEN @ ELSE {}]),
              "new_manager", "")
    /\ Restart({"enabled", "shutdown"}, "restarted")
    /\ UNCHANGED aloneVars

\* the orders in which a dict holding these keys may list them
Orders(keys) ==
    {o \in UNION {[1..n -> keys] : n \in {Cardinality(keys)}} :
        \A i, j \in DOMAIN o : i # j => o[i] # o[j]}

\* a behaviour for each plugin whose code the call runs
BehsFor(ids, behs) ==
    {[id \in Ids |-> IF id \in ids THEN f[id] ELSE NoFailure] :
        f \in [ids -> behs]}

SandboxKeys == {id \in Ids : ~IsNone(sandboxes[id])}

Next ==
    \/ \E pkg \in Packages : InstallPlugin(pkg)
    \/ \E id \in Ids, beh \in UnloadBehs : UninstallPlugin(id, beh)
    \/ \E id \in Ids, beh \in LoadBehs : EnablePlugin(id, beh)
    \/ \E id \in Ids, beh \in UnloadBehs : DisablePlugin(id, beh)
    \/ \E behs \in BehsFor(EnabledIds(Cur), LoadBehs) : LoadEnabledPlugins(behs)
    \/ \E order \in Orders(SandboxKeys), behs \in BehsFor(LoadedIds(Cur), UnloadBehs) :
           UnloadAllPlugins(order, behs)
    \/ \E id \in Ids, call \in Calls :
           ExecutePluginSafely(id, call[1], call[2], MaxErrCount)
    \/ \E same_process \in BOOLEAN : NewManager(same_process)

Spec == Init /\ [][Next]_vars

----------------------------------------------------------------------------
(* A PluginSandbox used on its own, as the sandbox tests use it.            *)
(* sbx.sandbox is the sandbox, sbx.prev the sandbox before the last call,   *)
(* sbx.op and sbx.call the last call and what the wrapped function did,     *)
(* sbx.ret what the call returned, and sbx.failed the number of failed      *)
(* execute_safely calls since construction or the last reset.               *)

\* the thresholds a sandbox is constructed with
MaxErrorsChoices == 1..DefaultMaxErrors

\* what a wrapped function does: returns None or a value, or raises
SandboxCalls == Outcomes \cup {Returns(Some(<<"value">>))}

InitSandbox ==
    /\ vld = IdleValidation
    /\ papi = IdleApi(<<>>)
    /\ db = <<>>
    /\ plugins_dir = [id \in Ids |-> None]
    /\ sandboxes = [id \in Ids |-> None]
    /\ loaded_modules = {}
    /\ sys_modules = {}
    /\ last = [op |-> "init", arg |-> "", raised |-> "", msg |-> <<>>,
               ret |-> None, events |-> <<>>, released |-> <<>>,
               was_enabled |-> {}, was_loaded |-> {},
               was_errors |-> [id \in Ids |-> 0]]
    /\ trip = OffTrip
    /\ \E n \in MaxErrorsChoices :
          LET sb == [PluginSandbox("test_plugin") EXCEPT !.max_errors = n]
          IN  sbx = [sandbox |-> sb, prev |-> sb, op |-> "init",
                     call |-> Returns(None), ret |-> None, failed |-> 0]

SandboxExecuteSafely(call) ==
    LET r == execute_safely(sbx.sandbox, call)
    IN  /\ call.raises => sbx.failed < MaxFailedCalls
        /\ sbx' = [sandbox |-> r.sandbox, prev |-> sbx.sandbox,
                   op |-> "execute_safely", call |-> call, ret |-> Some(r.ret),
                   failed |-> IF call.raises THEN sbx.failed + 1 ELSE sbx.failed]
        /\ UNCHANGED <<mgrVars, vld, papi>>

SandboxResetErrorCount ==
    /\ sbx' = [sandbox |-> reset_error_count(sbx.sandbox), prev |-> sbx.sandbox,
               op |-> "reset_error_count", call |-> Returns(None), ret |-> None,
               failed |-> 0]
    /\ UNCHANGED <<mgrVars, vld, papi>>

NextSandbox ==
    \/ \E call \in SandboxCalls : SandboxExecuteSafely(call)
    \/ SandboxResetErrorCount

SpecSandbox == InitSandbox /\ [][NextSandbox]_vars

----------------------------------------------------------------------------
(* The host validates one package, then installs and uninstalls it.         *)

ValidatePlugin(pkg) ==
    /\ vld.op = "init"
    /\ vld' = [op |-> "validate_plugin", pkg |-> pkg, ret |-> validate_plugin(pkg)]
    /\ UNCHANGED <<mgrVars, sbx, papi>>

InstallValidated ==
    /\ vld.op = "validate_plugin"
    /\ InstallPlugin(vld.pkg)

NextValidate ==
    \/ \E pkg \in ValidationPackages : ValidatePlugin(pkg)
    \/ InstallValidated
    \/ \E id \in Ids : UninstallPlugin(id, NoFailure)

SpecValidate == Init /\ [][NextValidate]_vars

----------------------------------------------------------------------------
(* One manager, one plugin: the host installs, loads and unloads it and     *)
(* keeps calling its members, past the sandbox's error threshold.           *)

\* the host makes a failing execute_plugin_safely call only on a sandbox whose
\* error_count is below this
MaxRuntimeErrors == 6

\* the conforming packages of plugin p1 the host installs: two versions that
\* ask for different permissions
RuntimePackages ==
    { Package("p1", <<"storage">>, TRUE, "good"),
      Package("p1", <<"events", "network">>, TRUE, "good") }

NextRuntime ==
    \/ \E pkg \in RuntimePackages : InstallPlugin(pkg)
    \/ \E beh \in LoadBehs : EnablePlugin("p1", beh)
    \/ \E call \in Calls :
           ExecutePluginSafely("p1", call[1], call[2], MaxRuntimeErrors)
    \/ \E beh \in UnloadBehs : DisablePlugin("p1", beh)
    \/ \E beh \in UnloadBehs : UninstallPlugin("p1", beh)
    \/ \E behs \in BehsFor(EnabledIds(Cur), LoadBehs) : LoadEnabledPlugins(behs)
    \/ \E order \in Orders(SandboxKeys), behs \in BehsFor(LoadedIds(Cur), UnloadBehs) :
           UnloadAllPlugins(order, behs)

SpecRuntime == Init /\ [][NextRuntime]_vars

----------------------------------------------------------------------------
(* A PluginAPI used on its own, as the API tests use it.  papi.api is the   *)
(* object, papi.prev the object before the last call, papi.op, papi.arg and *)
(* papi.given the last call, its event or key and its callback, value or    *)
(* default, papi.ret what it returned, papi.stored_before what papi.stored  *)
(* was before the last call.                                                *)

\* the permission lists an API object is constructed with
ApiPermissionChoices == {<<>>, <<"events">>, <<"storage">>, <<"events", "storage">>}

ApiEvents == {"e1"}

ApiCallbacks == {"cb1", "cb2"}

DataDefaults == {"d"}

\* registrations are made on an event that has fewer callbacks than this
MaxCallbacks == 2

\* log lines are written while the buffer holds fewer lines than this
MaxLogs == 1

InitAPI ==
    /\ vld = IdleValidation
    /\ \E permissions \in ApiPermissionChoices : papi = IdleApi(permissions)
    /\ db = <<>>
    /\ plugins_dir = [id \in Ids |-> None]
    /\ sandboxes = [id \in Ids |-> None]
    /\ loaded_modules = {}
    /\ sys_modules = {}
    /\ last = [op |-> "init", arg |-> "", raised |-> "", msg |-> <<>>,
               ret |-> None, events |-> <<>>, released |-> <<>>,
               was_enabled |-> {}, was_loaded |-> {},
               was_errors |-> [id \in Ids |-> 0]]
    /\ trip = OffTrip
    /\ sbx = [sandbox |-> PluginSandbox("test_plugin"),
              prev |-> PluginSandbox("test_plugin"), op |-> "init",
              call |-> Returns(None), ret |-> None, failed |-> 0]

\* the call op(arg, given) on the API object left it as api and returned ret
ApiCall(op, arg, given, api, ret, stored) ==
    /\ papi' = [api |-> api, prev |-> papi.api, op |-> op, arg |-> arg,
                given |-> given, ret |-> ret, stored |-> stored,
                stored_before |-> papi.stored]
    /\ UNCHANGED <<mgrVars, sbx, vld>>

ApiRegisterCallback(event, callback) ==
    LET r == register_callback(papi.api, event, callback)
    IN  /\ Len(get_callbacks(papi.api, event)) < MaxCallbacks
        /\ ApiCall("register_callback", event, callback, r.api, Some(r.ret),
                   papi.stored)

ApiUnregisterCallback(event, callback) ==
    LET r == unregister_callback(papi.api, event, callback)
    IN  ApiCall("unregister_callback", event, callback, r.api, Some(r.ret),
                papi.stored)

ApiLog(message) ==
    /\ Len(papi.api.logs) < MaxLogs
    /\ ApiCall("log", "", message, api_log(papi.api, message), None, papi.stored)

ApiStoreData(key, value) ==
    LET r == store_data(papi.api, key, value)
    IN  ApiCall("store_data", key, value, r.api, Some(r.ret),
                [papi.stored EXCEPT ![key] = Some(value)])

ApiGetData(key, default) ==
    ApiCall("get_data", key, default, papi.api,
            Some(get_data(papi.api, key, default)), papi.stored)

ApiDeleteData(key) ==
    LET r == delete_data(papi.api, key)
    IN  ApiCall("delete_data", key, "", r.api, Some(r.ret),
                [papi.stored EXCEPT ![key] = None])

ApiGetAllData ==
    ApiCall("get_all_data", "", "", papi.api, Some(get_all_data(papi.api)),
            papi.stored)

ApiCleanup ==
    ApiCall("cleanup", "", "", cleanup(papi.api), None, [k \in DataKeys |-> None])

NextAPI ==
    \/ \E event \in ApiEvents, callback \in ApiCallbacks :
           ApiRegisterCallback(event, callback)
    \/ \E event \in ApiEvents, callback \in ApiCallbacks :
           ApiUnregisterCallback(event, callback)
    \/ ApiLog("line")
    \/ \E key \in DataKeys, value \in DataValues : ApiStoreData(key, value)
    \/ \E key \in DataKeys, default \in DataDefaults : ApiGetData(key, default)
    \/ \E key \in DataKeys : ApiDeleteData(key)
    \/ ApiGetAllData
    \/ ApiCleanup

SpecAPI == InitAPI /\ [][NextAPI]_vars

----------------------------------------------------------------------------
(* Observations of the current manager state *)

\* get_plugin(id) is not None
Installed(id) == ~IsNone(db_get_plugin(db, id))

\* the persisted enabled flag of id
Enabled(id) == Installed(id) /\ Val(db_get_plugin(db, id)).enabled

Loaded(id) == is_plugin_loaded(Cur, id)

\* the last host call was op(id)
LastCall(op, id) == last.op = op /\ last.arg = id

Returned == last.raised = ""

\* plugin code or a file operation ran during the last host call
Happened(e) == InSeq(e, last.events)

\* position of the first occurrence of event e in the last host call, else 0
EventIndex(e) ==
    IF Happened(e)
    THEN CHOOSE i \in DOMAIN last.events :
            last.events[i] = e /\ \A j \in 1..(i - 1) : last.events[j] # e
    ELSE 0

NonEmptyText(o) == ~IsNone(o) /\ Val(o) # <<>>

\* how many times `what` ran on plugin id during the last host call
Times(what, id) ==
    Cardinality({i \in DOMAIN last.events :
                    last.events[i][1] = what /\ last.events[i][2] = id})

\* the PluginAPI objects of plugin id that the last host call dropped
ReleasedApis(id) ==
    {i \in DOMAIN last.released : last.released[i].plugin_id = id}

\* validate_plugin got as far as a parsed manifest of the package
ManifestRead(pkg) ==
    /\ pkg.exists
    /\ \/ pkg.shape = "zip" /\ pkg.manifest_at # "none"
       \/ pkg.shape = "dir" /\ pkg.manifest_at = "top"
    /\ pkg.json_ok

\* a required key of the manifest is absent or holds an empty value
MissingOrEmpty(manifest, f) ==
    \/ f \notin DOMAIN manifest
    \/ f = "entry_point" /\ manifest[f] = <<>>
    \/ f # "entry_point" /\ manifest[f] = ""

\* the required fields of the manifest that are missing or empty
BadFields(manifest) ==
    {k \in DOMAIN REQUIRED_MANIFEST_FIELDS :
        MissingOrEmpty(manifest, REQUIRED_MANIFEST_FIELDS[k])}

\* the positions of the manifest's permissions that are not allowed names
UnknownPermissions(manifest) ==
    {i \in DOMAIN ManifestPermissions(manifest).items :
        ManifestPermissions(manifest).items[i]
            \notin {ALLOWED_PERMISSIONS[j] : j \in DOMAIN ALLOWED_PERMISSIONS}}

Min(S) == CHOOSE x \in S : \A y \in S : x <= y

----------------------------------------------------------------------------
(* Claims *)

\* C1: when the last host calls were install_plugin, enable_plugin,
\* disable_plugin and uninstall_plugin of one plugin, each returning normally,
\* the record is installed, disabled and not loaded after the install, enabled
\* and loaded after the enable, installed, disabled and not loaded after the
\* disable, and after the uninstall get_plugin(id) is None and
\* get_installed_plugins() holds no row of it (none at all when no other
\* plugin is installed).
C1_LifecycleRoundTrip ==
    \A id \in Ids : trip.id = id =>
        /\ trip.phase = "installed" => Installed(id) /\ ~Enabled(id) /\ ~Loaded(id)
        /\ trip.phase = "enabled" => Installed(id) /\ Enabled(id) /\ Loaded(id)
        /\ trip.phase = "disabled" => Installed(id) /\ ~Enabled(id) /\ ~Loaded(id)
        /\ trip.phase = "done" =>
              /\ IsNone(db_get_plugin(db, id))
              /\ ~InSeq(id, [i \in DOMAIN db |-> db_get_all_plugins(db)[i].id])
              /\ (\A other \in Ids \ {id} : ~Installed(other))
                     => db_get_all_plugins(db) = <<>>

\* the four calls have been made in order and the store is empty again
C1_Witness == trip.phase = "done" /\ db = <<>>

\* C2: when on_load raised during enable_plugin(id), the call raised an
\* error whose message holds the sandbox's failure text, the record is still
\* installed with enabled = false, the plugin is not loaded, and
\* get_plugin_error(id) is a non-empty text holding the same failure text.
C2_LoadFailureNotEnabled ==
    \A id \in Ids :
        (LastCall("enable_plugin", id) /\ Happened(<<"on_load", id, "raise">>)) =>
            /\ last.raised = "ValueError"
            /\ \E e \in Exceptions :
                  /\ Contains(last.msg, FormatError(e))
                  /\ NonEmptyText(get_plugin_error(Cur, id))
                  /\ Contains(Val(get_plugin_error(Cur, id)), FormatError(e))
            /\ Installed(id) /\ ~Enabled(id) /\ ~Loaded(id)

C2_Witness ==
    \E id \in Ids :
        LastCall("enable_plugin", id) /\ Happened(<<"on_load", id, "raise">>)

\* C3: load_enabled_plugins() returns a map whose keys are exactly the ids
\* enabled when it was called; every one of them was attempted, whatever
\* happened to the others; an entry is None exactly when that plugin's on_load
\* returned, and then the plugin is loaded afterwards.
C3_AutoLoadIndependence ==
    last.op = "load_enabled_plugins" =>
        /\ Returned
        /\ DOMAIN last.ret = last.was_enabled
        /\ \A id \in Ids :
              (\E k \in {"import", "no_entry_point"} : Happened(<<"load_plugin", id, k>>))
                  <=> id \in last.was_enabled
        /\ \A id \in last.was_enabled :
              /\ IsNone(last.ret[id]) <=> Happened(<<"on_load", id, "ok">>)
              /\ IsNone(last.ret[id]) => Loaded(id)

\* two plugins were enabled, the first in store order failed, the second loaded
C3_Witness ==
    /\ last.op = "load_enabled_plugins"
    /\ Len(db) = 2
    /\ last.was_enabled = {db[1].id, db[2].id}
    /\ ~IsNone(last.ret[db[1].id])
    /\ IsNone(last.ret[db[2].id]) /\ Loaded(db[2].id)

\* C4: after load_enabled_plugins() every plugin whose load failed has a
\* non-empty error text in the result map, enabled = false in the store and
\* is not loaded; load_enabled_plugins attempts only plugins that are enabled
\* when it is called, so a later call does not attempt it.
C4_AutoLoadFailureDisables ==
    last.op = "load_enabled_plugins" =>
        /\ \A id \in DOMAIN last.ret :
              ~IsNone(last.ret[id]) =>
                  /\ Val(last.ret[id]) # <<>>
                  /\ Installed(id) /\ ~Enabled(id) /\ ~Loaded(id)
        /\ \A id \in Ids \ last.was_enabled :
              \A k \in {"import", "no_entry_point"} : ~Happened(<<"load_plugin", id, k>>)

\* a plugin that was loaded in this manager failed when loaded again
C4_Witness ==
    /\ last.op = "load_enabled_plugins"
    /\ \E id \in last.was_loaded : id \in DOMAIN last.ret /\ ~IsNone(last.ret[id])

\* C5: an execute_safely call whose function raises returns
\* (False, None, last_error) to its caller, sets last_error to a non-empty
\* text holding the exception's type name and its message, and adds exactly
\* one to error_count.
C5_ExecuteSafelyIsolates ==
    (sbx.op = "execute_safely" /\ sbx.call.raises) =>
        /\ ~IsNone(sbx.ret)
        /\ Val(sbx.ret) = [success |-> FALSE, result |-> None,
                           error |-> sbx.sandbox.last_error]
        /\ NonEmptyText(sbx.sandbox.last_error)
        /\ Contains(Val(sbx.sandbox.last_error), <<sbx.call.exc.kind>>)
        /\ Contains(Val(sbx.sandbox.last_error), StrExc(sbx.call.exc))
        /\ sbx.sandbox.error_count = sbx.prev.error_count + 1

\* a failing call on a sandbox that had already counted an error
C5_Witness ==
    sbx.op = "execute_safely" /\ sbx.call.raises /\ sbx.prev.error_count > 0

C7_Original ==
    \A id \in Ids :
        (LastCall("enable_plugin", id) /\ Returned) => Enabled(id) /\ Loaded(id)

\* C7 amended: whenever enable_plugin(id) returns without raising, the record
\* is enabled; the plugin is loaded if the call found the record disabled,
\* and if it found the record already enabled the call loads nothing: the
\* plugin is loaded afterwards exactly when it was loaded before.
C7_EnableReturns ==
    \A id \in Ids :
        (LastCall("enable_plugin", id) /\ Returned) =>
            /\ Enabled(id)
            /\ id \notin last.was_enabled => Loaded(id)
            /\ id \in last.was_enabled =>
                  /\ Loaded(id) <=> id \in last.was_loaded
                  /\ last.events = <<>>

\* enable_plugin returned on a record that was enabled but not loaded
C7_Witness ==
    \E id \in Ids :
        /\ LastCall("enable_plugin", id) /\ Returned
        /\ id \in last.was_enabled /\ ~Loaded(id)

\* C8: when on_unload raised during disable_plugin(id) of an enabled, loaded
\* plugin, the call returned normally, the failure is recorded in the sandbox
\* (last_error, error_count), the sandbox holds no instance and no API, the
\* plugin is not loaded and the record has enabled = false.
C8_DisableSwallowsUnloadFailure ==
    \A id \in Ids :
        (LastCall("disable_plugin", id) /\ Happened(<<"on_unload", id, "raise">>)) =>
            /\ Returned
            /\ id \in last.was_enabled /\ id \in last.was_loaded
            /\ ~IsNone(sandboxes[id])
            /\ IsNone(Val(sandboxes[id]).plugin_instance)
            /\ IsNone(Val(sandboxes[id]).api)
            /\ \E e \in Exceptions :
                  Val(sandboxes[id]).last_error = Some(FormatError(e))
            /\ Val(sandboxes[id]).error_count >= 1
            /\ ~Loaded(id)
            /\ Installed(id) /\ ~Enabled(id)

C8_Witness ==
    \E id \in Ids :
        LastCall("disable_plugin", id) /\ Happened(<<"on_unload", id, "raise">>)

\* C9: uninstall_plugin(id) of an enabled plugin returns with no record, no
\* install directory and no sandbox for id, the plugin not loaded; and when
\* the plugin was loaded, on_unload of its instance ran before the directory
\* was removed and before the record was deleted.
C9_UninstallDisablesFirst ==
    \A id \in Ids :
        (LastCall("uninstall_plugin", id) /\ id \in last.was_enabled) =>
            /\ Returned
            /\ ~Installed(id)
            /\ IsNone(plugins_dir[id])
            /\ IsNone(sandboxes[id])
            /\ ~Loaded(id)
            /\ id \in last.was_loaded =>
                  \E res \in {"ok", "raise"} :
                      /\ Happened(<<"on_unload", id, res>>)
                      /\ EventIndex(<<"on_unload", id, res>>)
                            < EventIndex(<<"rmtree", id, "ok">>)
                      /\ EventIndex(<<"rmtree", id, "ok">>)
                            < EventIndex(<<"delete_plugin", id, "ok">>)

C9_Witness ==
    \E id \in Ids :
        /\ LastCall("uninstall_plugin", id)
        /\ id \in last.was_enabled /\ id \in last.was_loaded

C11_InstallValidatesFirst ==
    /\ [](last.op = "install_plugin" =>
             /\ \A i \in DOMAIN last.events : last.events[i][1] = "copy_files"
             /\ Returned =>
                   /\ ~IsNone(last.ret)
                   /\ ~Val(last.ret).enabled
                   /\ db_get_plugin(db, last.arg) = last.ret
                   /\ ~Enabled(last.arg))
    /\ [][\A pkg \in Packages :
             (/\ last'.op = "install_plugin"
              /\ ~validate_plugin(pkg).valid
              /\ InstallPlugin(pkg))
             => /\ last'.raised = "ValueError"
                /\ last'.msg = <<"plugin_validation_failed: ">> \o validate_plugin(pkg).error
                /\ UNCHANGED <<db, plugins_dir, sandboxes, loaded_modules,
                               sys_modules>>]_vars

\* a package that fails validation was refused while a plugin of its id was
\* installed and loaded
C11_Witness ==
    /\ last.op = "install_plugin" /\ last.raised = "ValueError"
    /\ Loaded(last.arg)

\* C12: when validate_plugin reads a manifest in which a required field is
\* missing or empty, it returns (false, msg) and msg holds the name of the
\* first such field in the order id, name, version, entry_point.
C12_FirstMissingFieldNamed ==
    (vld.op = "validate_plugin" /\ ManifestRead(vld.pkg)
        /\ BadFields(vld.pkg.manifest) # {}) =>
        /\ ~vld.ret.valid
        /\ Contains(vld.ret.error,
                    <<REQUIRED_MANIFEST_FIELDS[Min(BadFields(vld.pkg.manifest))]>>)

\* name is empty and entry_point is missing: name is the field reported
C12_Witness ==
    /\ vld.op = "validate_plugin" /\ ManifestRead(vld.pkg)
    /\ BadFields(vld.pkg.manifest) = {2, 4}
    /\ "name" \in DOMAIN vld.pkg.manifest
    /\ ~vld.ret.valid

\* C13: when validate_plugin reads a manifest whose required fields are all
\* present and whose permissions list holds a name outside the allow-list, it
\* returns (false, msg) and msg holds the first such name in list order; and
\* every record in the store lists only permissions of the allow-list.
C13_UnknownPermissionRefused ==
    /\ (vld.op = "validate_plugin" /\ ManifestRead(vld.pkg)
           /\ BadFields(vld.pkg.manifest) = {}
           /\ ManifestPermissions(vld.pkg.manifest).is_list
           /\ UnknownPermissions(vld.pkg.manifest) # {}) =>
           /\ ~vld.ret.valid
           /\ Contains(vld.ret.error,
                  <<ManifestPermissions(vld.pkg.manifest).items[
                        Min(UnknownPermissions(vld.pkg.manifest))]>>)
    /\ \A i \in DOMAIN db : \A j \in DOMAIN db[i].permissions :
           InSeq(db[i].permissions[j], ALLOWED_PERMISSIONS)

\* the unknown name "camera" comes after an allowed one and before another
\* unknown one, and the install of that package was refused
C13_Witness ==
    /\ vld.op = "validate_plugin" /\ ManifestRead(vld.pkg)
    /\ BadFields(vld.pkg.manifest) = {}
    /\ ManifestPermissions(vld.pkg.manifest).items = <<"storage", "camera", "bogus">>
    /\ last.op = "install_plugin" /\ last.raised = "ValueError"

\* C14: validate_plugin reports the earliest check a manifest violates, in
\* the order required fields, permissions, entry-point extension, and returns
\* (true, "") exactly when the package is readable and its manifest violates
\* none of them; a refusal carries a non-empty reason.
C14_ChecksInOrder ==
    vld.op = "validate_plugin" =>
        LET manifest == vld.pkg.manifest
            fields_bad == BadFields(manifest) # {}
            perms_bad == \/ ~ManifestPermissions(manifest).is_list
                         \/ UnknownPermissions(manifest) # {}
            entry_bad == ~fields_bad /\ manifest.entry_point[2] # ".py"
        IN  /\ ManifestRead(vld.pkg) =>
                  /\ fields_bad => vld.ret.error[1] \in
                         {"manifest_missing_field: ", "manifest_field_empty: "}
                  /\ (~fields_bad /\ perms_bad) => vld.ret.error[1] \in
                         {"permissions_must_be_array", "unknown_permission: "}
                  /\ (~fields_bad /\ ~perms_bad /\ entry_bad) =>
                         vld.ret.error = <<"entry_point_must_be_py">>
            /\ vld.ret.valid <=>
                  (ManifestRead(vld.pkg) /\ ~fields_bad /\ ~perms_bad /\ ~entry_bad)
            /\ vld.ret.valid <=> vld.ret.error = <<>>

\* all fields present, an unknown permission and a wrong extension: the
\* permission is what is reported
C14_Witness ==
    /\ vld.op = "validate_plugin" /\ ManifestRead(vld.pkg)
    /\ BadFields(vld.pkg.manifest) = {}
    /\ UnknownPermissions(vld.pkg.manifest) # {}
    /\ vld.pkg.manifest.entry_point[2] = ".txt"
    /\ vld.ret.error[1] = "unknown_permission: "

\* C15: a PluginAPI without the events permission has an empty callback
\* registry after any sequence of calls, and register_callback on it returns
\* false and changes nothing; a PluginAPI without the storage permission has
\* an empty key/value store after any sequence of calls, store_data and
\* delete_data on it return false and change nothing, and get_data returns
\* the default it was given.
C15_DeniedCallsChangeNothing ==
    /\ ~check_permission(papi.api, "events") =>
          /\ papi.api.callbacks = <<>>
          /\ papi.op = "register_callback" =>
                papi.ret = Some(FALSE) /\ papi.api = papi.prev
    /\ ~check_permission(papi.api, "storage") =>
          /\ papi.api.storage = {}
          /\ papi.op \in {"store_data", "delete_data"} =>
                papi.ret = Some(FALSE) /\ papi.api = papi.prev
          /\ papi.op = "get_data" => papi.ret = Some(papi.given)
          /\ papi.op = "get_all_data" => papi.ret = Some({})

\* get_data of a key that store_data was called with, on an API with neither
\* permission
C15_Witness ==
    /\ papi.api.permissions = {}
    /\ papi.op = "get_data"
    /\ ~IsNone(papi.stored[papi.arg])

\* C16: on a PluginAPI with the storage permission, get_data(k, d) returns
\* the value of the last store_data(k, v) that no delete_data(k) and no
\* cleanup() followed, and d when there is none; store_data returns true;
\* delete_data(k) returns true exactly when such a store_data(k, v) preceded.
C16_StorageRoundTrip ==
    check_permission(papi.api, "storage") =>
        /\ papi.op = "get_data" =>
              papi.ret = Some(IF IsNone(papi.stored[papi.arg])
                              THEN papi.given
                              ELSE Val(papi.stored[papi.arg]))
        /\ papi.op = "store_data" => papi.ret = Some(TRUE)
        /\ papi.op = "delete_data" =>
              papi.ret = Some(~IsNone(papi.stored_before[papi.arg]))

\* get_data returned a value stored over an earlier one while the other key
\* held nothing
C16_Witness ==
    /\ check_permission(papi.api, "storage")
    /\ papi.op = "get_data"
    /\ papi.ret = Some("v2")
    /\ \E k \in DataKeys \ {papi.arg} : IsNone(papi.stored[k])

\* C17 as claimed: a host call that unloads a loaded plugin (on_unload of its
\* instance runs) calls cleanup() on that plugin's PluginAPI exactly once,
\* and the API object it drops has no callbacks, no log lines and no stored
\* data; cleanup() runs on no other occasion.
C17_CleanupAtUnload ==
    \A id \in Ids :
        /\ Times("cleanup", id) = Times("on_unload", id)
        /\ Times("on_unload", id) > 0 =>
              /\ ReleasedApis(id) # {}
              /\ \A i \in ReleasedApis(id) :
                    /\ last.released[i].callbacks = <<>>
                    /\ last.released[i].logs = <<>>
                    /\ last.released[i].storage = {}

\* C18: unload_all_plugins() returns normally; during it on_unload ran
\* exactly once on every plugin that was loaded when it was called and on no
\* other, whatever the other on_unload calls did; afterwards no plugin is
\* loaded and the manager holds no sandbox, hence no last error, for any id.
C18_UnloadAllClearsEverything ==
    last.op = "unload_all_plugins" =>
        /\ Returned
        /\ \A id \in Ids :
              /\ Times("on_unload", id) = IF id \in last.was_loaded THEN 1 ELSE 0
              /\ ~Loaded(id)
              /\ IsNone(sandboxes[id])
              /\ IsNone(get_plugin_error(Cur, id))
        /\ loaded_modules = {}

\* two plugins were loaded; on_unload of the first raised and on_unload of
\* the second ran after it
C18_Witness ==
    /\ last.op = "unload_all_plugins"
    /\ \E a, b \in last.was_loaded :
          /\ a # b
          /\ Happened(<<"on_unload", a, "raise">>)
          /\ Happened(<<"on_unload", b, "ok">>)
          /\ EventIndex(<<"on_unload", a, "raise">>)
                < EventIndex(<<"on_unload", b, "ok">>)

\* C19: a plugin that install_plugin and enable_plugin left enabled is, after
\* unload_all_plugins (if the host called it) and for a new manager over the
\* same store, still recorded enabled and not loaded; the first
\* load_enabled_plugins of the new manager attempts it, and when its on_load
\* returns its result entry is None and it is enabled and loaded.
C19_EnabledSurvivesRestart ==
    \A id \in Ids : trip.id = id =>
        /\ trip.phase \in {"shutdown", "restarted"} => Enabled(id) /\ ~Loaded(id)
        /\ trip.phase = "autoloaded" =>
              /\ id \in DOMAIN last.ret
              /\ Times("on_load", id) = 1
              /\ Happened(<<"on_load", id, "ok">>) =>
                    IsNone(last.ret[id]) /\ Enabled(id) /\ Loaded(id)

\* the plugin was loaded by the new manager although another enabled plugin
\* failed to load
C19_Witness ==
    /\ trip.phase = "autoloaded"
    /\ Loaded(trip.id)
    /\ \E other \in DOMAIN last.ret : ~IsNone(last.ret[other])

\* C20 as claimed: execute_plugin_safely(id, "info") on a loaded plugin whose
\* info property returns its PluginInfo returns success with a result record
\* whose id is id, leaves the sandbox's error_count as it was, and the plugin
\* is loaded.
C20_InfoReturnsRecord ==
    [][\A id \in Ids :
          (/\ last'.op = "execute_plugin_safely" /\ last'.arg = id
           /\ last'.raised = ""
           /\ \E res \in {"ok", "raise"} : InSeq(<<"info", id, res>>, last'.events))
          => /\ last'.ret.success
             /\ ~IsNone(last'.ret.result)
             /\ Val(last'.ret.result).id = id
             /\ Val(sandboxes'[id]).error_count = Val(sandboxes[id]).error_count
             /\ Val(sandboxes'[id]).is_loaded]_vars

\* the units of plugin-authored code the manager runs
PluginCode == {"exec_module", "init", "on_load", "on_unload", "info", "run"}

\* C21 as claimed: whenever a unit of plugin code raised during a host call
\* (module body, constructor, on_load, on_unload, a member reached through
\* execute_plugin_safely), the host call did not raise the plugin's own
\* exception, and the plugin's sandbox, where one is still tracked, has
\* last_error set and an error_count one above what it was (one above zero
\* for the fresh sandbox of a load).
C21_AllFailuresSandboxed ==
    \A id \in Ids : \A what \in PluginCode :
        Happened(<<what, id, "raise">>) =>
            /\ last.raised \notin {e.kind : e \in Exceptions}
            /\ ~IsNone(sandboxes[id]) =>
                  /\ ~IsNone(Val(sandboxes[id]).last_error)
                  /\ Val(sandboxes[id]).error_count =
                        IF what \in {"exec_module", "init", "on_load"}
                        THEN 1
                        ELSE last.was_errors[id] + 1

\* C22: enable_plugin on an enabled record and disable_plugin on a disabled
\* record return normally, run no plugin code and leave the store, the
\* sandboxes and the loaded-module map as they were; enable_plugin,
\* disable_plugin and uninstall_plugin on an id without a record raise the
\* not-found error and change nothing.
C22_NoOpsChangeNothing ==
    [][\A id \in Ids :
          /\ (/\ last'.arg = id
              /\ \/ last'.op = "enable_plugin" /\ Enabled(id)
                 \/ last'.op = "disable_plugin" /\ Installed(id) /\ ~Enabled(id))
             => /\ last'.raised = ""
                /\ last'.events = <<>>
                /\ UNCHANGED <<db, plugins_dir, sandboxes, loaded_modules, sys_modules>>
          /\ (/\ last'.arg = id
              /\ last'.op \in {"enable_plugin", "disable_plugin", "uninstall_plugin"}
              /\ ~Installed(id))
             => /\ last'.raised = "ValueError"
                /\ last'.msg = <<"plugin_not_found: ", id>>
                /\ last'.events = <<>>
                /\ UNCHANGED <<db, plugins_dir, sandboxes, loaded_modules, sys_modules>>]_vars

\* disable_plugin returned on a disabled record whose sandbox, left by a
\* failed load, holds an error
C22_Witness ==
    /\ last.op = "disable_plugin" /\ Returned
    /\ last.arg \notin last.was_enabled
    /\ Installed(last.arg)
    /\ NonEmptyText(get_plugin_error(Cur, last.arg))

PermissionNames ==
    {ALLOWED_PERMISSIONS[i] : i \in DOMAIN ALLOWED_PERMISSIONS} \cup {"camera"}

\* the persisted permission set of id's record
RecordPermissions(id) ==
    {Val(db_get_plugin(db, id)).permissions[i] :
        i \in DOMAIN Val(db_get_plugin(db, id)).permissions}

\* C24: the permission set of the PluginAPI a sandbox holds is the persisted
\* permission set of the plugin's record, has_permission(p) is true exactly
\* for its members, and no host call changes it while the plugin stays
\* loaded.
C24_PermissionsFrozen ==
    /\ [](\A id \in Ids :
             (~IsNone(sandboxes[id]) /\ ~IsNone(Val(sandboxes[id]).api)) =>
                 /\ Installed(id)
                 /\ Val(Val(sandboxes[id]).api).permissions = RecordPermissions(id)
                 /\ \A p \in PermissionNames :
                       has_permission(Val(Val(sandboxes[id]).api), p)
                           <=> p \in RecordPermissions(id))
    /\ [][\A id \in Ids :
             (Loaded(id) /\ is_plugin_loaded([sandboxes |-> sandboxes'], id)) =>
                 Val(Val(sandboxes'[id]).api).permissions
                     = Val(Val(sandboxes[id]).api).permissions]_vars

\* the plugin is loaded from a version without the storage permission: its
\* on_load has logged a line and its store_data was refused
C24_Witness ==
    \E id \in Ids :
        /\ Loaded(id)
        /\ Val(Val(sandboxes[id]).api).permissions = {"events", "network"}
        /\ Val(Val(sandboxes[id]).api).logs # <<>>
        /\ Val(Val(sandboxes[id]).api).storage = {}

\* C25: a tracked sandbox is marked loaded exactly when it holds a plugin
\* instance and exactly when it holds a PluginAPI (each id has at most one
\* sandbox: the manager keeps them in a map keyed by id); the sandbox left by
\* a load that failed and the sandbox left by disable_plugin hold neither.
C25_SandboxHoldsAllOrNothing ==
    /\ \A id \in Ids : ~IsNone(sandboxes[id]) =>
          /\ Val(sandboxes[id]).is_loaded <=> ~IsNone(Val(sandboxes[id]).plugin_instance)
          /\ Val(sandboxes[id]).is_loaded <=> ~IsNone(Val(sandboxes[id]).api)
    /\ \A id \in Ids :
          (\/ LastCall("disable_plugin", id) /\ Returned
           \/ /\ last.op \in {"enable_plugin", "load_enabled_plugins"}
              /\ Happened(<<"load_plugin", id, "import">>)
              /\ ~Happened(<<"on_load", id, "ok">>))
          => \/ IsNone(sandboxes[id])
             \/ /\ IsNone(Val(sandboxes[id]).plugin_instance)
                /\ IsNone(Val(sandboxes[id]).api)
                /\ ~Val(sandboxes[id]).is_loaded

\* disable_plugin, whose on_unload raised, left one sandbox while another
\* plugin's sandbox is the one a failed load left
C25_Witness ==
    \E a, b \in Ids :
        /\ LastCall("disable_plugin", a) /\ Happened(<<"on_unload", a, "raise">>)
        /\ ~IsNone(sandboxes[a])
        /\ ~IsNone(sandboxes[b]) /\ a # b
        /\ ~Val(sandboxes[b]).is_loaded
        /\ Val(sandboxes[b]).error_count = 0
        /\ ~IsNone(Val(sandboxes[b]).last_error)

\* C26: a plugin that is loaded has a record with enabled = true, and every
\* tracked sandbox belongs to an id that has a record.
C26_LoadedImpliesEnabled ==
    \A id \in Ids :
        /\ Loaded(id) => Installed(id) /\ Enabled(id)
        /\ ~IsNone(sandboxes[id]) => Installed(id)

\* one plugin is loaded and enabled while a disabled one keeps the sandbox of
\* a failed load
C26_Witness ==
    \E a, b \in Ids :
        /\ Loaded(a) /\ Enabled(a)
        /\ ~Enabled(b) /\ ~IsNone(sandboxes[b]) /\ ~Loaded(b)
        /\ last.op = "load_enabled_plugins"

\* the positions in the last host call at which `what` ran on plugin id
Positions(what, id) ==
    {i \in DOMAIN last.events :
        last.events[i][1] = what /\ last.events[i][2] = id}

\* C27 as claimed: on_load runs on a new instance of a plugin only when no
\* earlier instance of it is loaded, or after that instance's on_unload has
\* run: a host call that runs on_load for an id that was loaded has run
\* on_unload for it first.
C27_LoadsAndUnloadsAlternate ==
    \A id \in Ids :
        /\ Times("on_load", id) <= 1
        /\ (id \in last.was_loaded /\ Times("on_load", id) = 1) =>
              \E j \in Positions("on_unload", id) :
                  \A i \in Positions("on_load", id) : j < i

\* C28 as claimed: the manager's loaded-module map has an entry for id, and
\* the module namespace plugin_<id> exists, exactly when the plugin is loaded.
C28_HandleExactlyWhileLoaded ==
    \A id \in Ids :
        /\ id \in loaded_modules <=> Loaded(id)
        /\ id \in sys_modules <=> Loaded(id)

\* C29: a load attempt of enable_plugin or load_enabled_plugins that got as
\* far as loading the module leaves the plugin with a fresh sandbox: after
\* on_load returned the plugin is loaded with error_count 0 and no
\* last_error, after on_load failed error_count is 1, whatever was recorded
\* for the id before.
C29_LoadStartsFreshSandbox ==
    \A id \in Ids :
        (/\ last.op \in {"enable_plugin", "load_enabled_plugins"}
         /\ Happened(<<"load_plugin", id, "import">>)) =>
            /\ ~IsNone(sandboxes[id])
            /\ Happened(<<"on_load", id, "ok">>) =>
                  /\ Loaded(id)
                  /\ Val(sandboxes[id]).error_count = 0
                  /\ IsNone(Val(sandboxes[id]).last_error)
            /\ Happened(<<"on_load", id, "raise">>) =>
                  /\ ~Loaded(id)
                  /\ Val(sandboxes[id]).error_count = 1
                  /\ ~IsNone(Val(sandboxes[id]).last_error)

\* an enable whose on_load failed, on a plugin whose earlier sandbox had
\* counted several failures
C29_Witness ==
    /\ last.op = "enable_plugin"
    /\ last.raised = "ValueError"
    /\ Happened(<<"on_load", "p1", "raise">>)
    /\ last.was_errors["p1"] >= 2
    /\ ~IsNone(sandboxes["p1"])
    /\ Val(sandboxes["p1"]).error_count = 1

\* plugin code of id failed during the last host call
FailedIn(events, id) ==
    \E i \in DOMAIN events : events[i][2] = id /\ events[i][3] = "raise"

\* C30: a successful execute_plugin_safely returns (true, result, null) and
\* leaves the sandbox as it was, a previous last_error included; on a plugin
\* that is not loaded, or for a method the instance does not have, it
\* returns (false, null, reason), runs no plugin code and changes no
\* sandbox; and in any host step that keeps an id's sandbox, its error_count
\* and last_error change only if plugin code of that id failed in the step.
C30_ErrorsChangeOnlyOnFailure ==
    [][/\ \A id \in Ids :
            (last'.op = "execute_plugin_safely" /\ last'.arg = id
                /\ last'.raised = "") =>
               /\ last'.ret.success =>
                     /\ IsNone(last'.ret.error)
                     /\ sandboxes' = sandboxes
               /\ (\/ IsNone(sandboxes[id])
                   \/ ~Val(sandboxes[id]).is_loaded
                   \/ last'.events = <<>>) =>
                     /\ ~last'.ret.success
                     /\ IsNone(last'.ret.result)
                     /\ ~IsNone(last'.ret.error)
                     /\ last'.events = <<>>
                     /\ sandboxes' = sandboxes
       /\ \A id \in Ids :
            (/\ ~IsNone(sandboxes[id]) /\ ~IsNone(sandboxes'[id])
             /\ ~InSeq(<<"load_plugin", id, "import">>, last'.events)
             /\ \/ Val(sandboxes'[id]).error_count # Val(sandboxes[id]).error_count
                \/ Val(sandboxes'[id]).last_error # Val(sandboxes[id]).last_error) =>
               FailedIn(last'.events, id)
      ]_vars

\* a call that succeeded on a sandbox holding earlier failures, which it kept
C30_Witness ==
    /\ last.op = "execute_plugin_safely"
    /\ last.raised = ""
    /\ last.ret.success
    /\ last.events = <<<<"run", "p1", "ok">>>>
    /\ last.was_errors["p1"] >= 2
    /\ ~IsNone(sandboxes["p1"])
    /\ Val(sandboxes["p1"]).error_count = last.was_errors["p1"]
    /\ ~IsNone(Val(sandboxes["p1"]).last_error)

====
